---- MODULE Spec2Model ----
(***************************************************************************)
(* gin-gen (src/main.go): a web service whose POST /generate handler       *)
(* parses a model description, renders a project skeleton into a fresh     *)
(* staging directory, packs that directory into <TempDir>/<project>.zip    *)
(* and answers with that file.                                             *)
(*                                                                         *)
(* Text is a sequence of one-character strings, a path is a sequence of    *)
(* path elements (each a text), so that splitting, trimming, snake-casing  *)
(* and filepath.Clean are computed character by character and element by   *)
(* element, as the code and the Go library do.                             *)
(***************************************************************************)
EXTENDS Integers, Sequences, FiniteSets, TLC

(***************************************************************************)
(* Bounds of the model.                                                    *)
(***************************************************************************)
\* number of lines of a description drawn for the parser
MaxLines == 5
\* number of /generate requests the server receives
NumRequests == 2

VARIABLES
  ptext,     \* parseModels: the input text
  presult,   \* parseModels: "none" before the call, then its outcome
  faults,    \* the operating system may fail a file operation (fixed at start)
  alive,     \* the serving process runs (FALSE after log.Fatal / os.Exit)
  pc,        \* per request: the handler's position
  form,      \* per request: the posted form (project_name, models)
  data,      \* per request: TemplateData built from the form
  tempDir,   \* per request: the path MkdirTemp returned
  iter,      \* per request: index of the model the loop at line 286 is at
  dirs,      \* filesystem: the directories that exist
  files,     \* filesystem: regular file path -> content
  zip,       \* per request: createZip's locals (file offset, entries written, err)
  resp,      \* per request: the response sent
  wrote,     \* per request: the paths it created or wrote
  readp      \* per request: the paths it read

vars == <<ptext, presult, faults, alive, pc, form, data, tempDir, iter, dirs, files,
          zip, resp, wrote, readp>>

(***************************************************************************)
(* Characters and the strings package.                                     *)
(***************************************************************************)
UpperLetters == <<"A","B","C","D","E","F","G","H","I","J","K","L","M",
                  "N","O","P","Q","R","S","T","U","V","W","X","Y","Z">>
LowerLetters == <<"a","b","c","d","e","f","g","h","i","j","k","l","m",
                  "n","o","p","q","r","s","t","u","v","w","x","y","z">>

IsUpper(c) == \E i \in 1..26 : UpperLetters[i] = c

\* unicode.ToLower on one character
ToLowerChar(c) ==
  IF IsUpper(c) THEN LowerLetters[CHOOSE i \in 1..26 : UpperLetters[i] = c] ELSE c

\* strings.ToLower
ToLower(s) == [i \in 1..Len(s) |-> ToLowerChar(s[i])]

\* unicode.IsSpace, on the characters of the model's alphabet
IsSpace(c) == c \in {" ", "\t", "\n", "\r"}

\* index of the first occurrence of sep in s, 0 when there is none (strings.Index + 1)
Index(s, sep) ==
  LET hits == {i \in 1..(Len(s) - Len(sep) + 1) : SubSeq(s, i, i + Len(sep) - 1) = sep}
  IN IF hits = {} THEN 0 ELSE CHOOSE i \in hits : \A j \in hits : i <= j

\* strings.Contains
Contains(s, sub) == Index(s, sub) # 0

\* strings.HasPrefix / strings.HasSuffix
HasPrefix(s, p) == Len(s) >= Len(p) /\ SubSeq(s, 1, Len(p)) = p
HasSuffix(s, p) == Len(s) >= Len(p) /\ SubSeq(s, Len(s) - Len(p) + 1, Len(s)) = p

\* strings.Split(s, sep) for a non-empty sep: always at least one piece
RECURSIVE Split(_, _)
Split(s, sep) ==
  LET i == Index(s, sep)
  IN IF i = 0 THEN <<s>>
     ELSE <<SubSeq(s, 1, i - 1)>> \o Split(SubSeq(s, i + Len(sep), Len(s)), sep)

\* strings.Trim(s, cutset): drops every leading and trailing character that is in cutset
RECURSIVE TrimLeft(_, _)
TrimLeft(s, cutset) ==
  IF s # <<>> /\ Head(s) \in cutset THEN TrimLeft(Tail(s), cutset) ELSE s
RECURSIVE TrimRight(_, _)
TrimRight(s, cutset) ==
  IF s # <<>> /\ s[Len(s)] \in cutset THEN TrimRight(SubSeq(s, 1, Len(s) - 1), cutset) ELSE s
Trim(s, cutset) == TrimRight(TrimLeft(s, cutset), cutset)

\* strings.TrimSpace
TrimSpace(s) == Trim(s, {" ", "\t", "\n", "\r"})

\* strings.Fields: the maximal runs of non-space characters
RECURSIVE Fields(_)
Fields(s) ==
  LET t == TrimLeft(s, {" ", "\t", "\n", "\r"})
      stops == {i \in 1..Len(t) : IsSpace(t[i])}
      n == IF stops = {} THEN Len(t) + 1 ELSE CHOOSE i \in stops : \A j \in stops : i <= j
  IN IF t = <<>> THEN <<>>
     ELSE <<SubSeq(t, 1, n - 1)>> \o Fields(SubSeq(t, n, Len(t)))

(***************************************************************************)
(* Inflector: toSnakeCase, pluralize.                                      *)
(***************************************************************************)
\* the loop of toSnakeCase: an underscore before every upper-case letter but the first
RECURSIVE SnakeLoop(_, _)
SnakeLoop(s, i) ==
  IF i > Len(s) THEN <<>>
  ELSE (IF i > 1 /\ IsUpper(s[i]) THEN <<"_", s[i]>> ELSE <<s[i]>>) \o SnakeLoop(s, i + 1)

toSnakeCase(s) == ToLower(SnakeLoop(s, 1))

pluralize(s) ==
  IF HasSuffix(s, <<"y">>) THEN SubSeq(s, 1, Len(s) - 1) \o <<"i","e","s">>
  ELSE s \o <<"s">>

(***************************************************************************)
(* parseModels.                                                            *)
(***************************************************************************)
NL == <<"\n">>
gormPrefix == <<"g","o","r","m",":">>
columnPrefix == <<"c","o","l","u","m","n",":">>
requiredWord == <<"r","e","q","u","i","r","e","d">>

\* the loop over parts[2:] (lines 217-223): every gorm: token overwrites gormTag
\* with strings.Trim(tag, "gorm:\""), whose second argument is a cutset
RECURSIVE ScanTags(_, _)
ScanTags(tags, gormTag) ==
  IF tags = <<>> THEN gormTag
  ELSE ScanTags(Tail(tags),
                IF HasPrefix(Head(tags), gormPrefix)
                THEN Trim(Head(tags), {"g", "o", "r", "m", ":", "\""})
                ELSE gormTag)

\* one field line that has at least two tokens (lines 211-236)
ParseField(line, parts) ==
  LET fieldName == parts[1]
      scanned == IF Len(parts) > 2 THEN ScanTags(SubSeq(parts, 3, Len(parts)), <<>>) ELSE <<>>
  IN [Name |-> fieldName,
      Type |-> parts[2],
      JsonTag |-> ToLower(fieldName),
      GormTag |-> IF scanned = <<>> THEN columnPrefix \o toSnakeCase(fieldName) ELSE scanned,
      Required |-> Contains(line, requiredWord)]

\* the loop over lines[1:] (lines 200-237)
RECURSIVE ParseFields(_)
ParseFields(lines) ==
  IF lines = <<>> THEN <<>>
  ELSE LET line == TrimSpace(Head(lines))
           parts == Fields(line)
       IN (IF line = <<>> \/ Len(parts) < 2 THEN <<>> ELSE <<ParseField(line, parts)>>)
          \o ParseFields(Tail(lines))

\* the loop over blocks (lines 191-246). modelName[:1] on an empty modelName is a
\* slice-bounds panic, which leaves parseModels without a result.
RECURSIVE ParseBlocks(_, _)
ParseBlocks(blocks, models) ==
  IF blocks = <<>> THEN [panicked |-> FALSE, models |-> models]
  ELSE LET lines == Split(Head(blocks), NL)
           modelName == TrimSpace(lines[1])
       IN IF Len(lines) < 2 THEN ParseBlocks(Tail(blocks), models)
          ELSE IF Len(modelName) < 1 THEN [panicked |-> TRUE, models |-> <<>>]
          ELSE ParseBlocks(Tail(blocks), Append(models,
                 [Name |-> modelName,
                  Fields |-> ParseFields(Tail(lines)),
                  SnakeName |-> toSnakeCase(modelName),
                  LowerName |-> ToLower(SubSeq(modelName, 1, 1)) \o SubSeq(modelName, 2, Len(modelName)),
                  PluralName |-> pluralize(modelName)]))

parseModels(input) == ParseBlocks(Split(input, NL \o NL), <<>>)

(***************************************************************************)
(* Descriptions the parser is run on: up to MaxLines lines joined by "\n". *)
(***************************************************************************)
RECURSIVE Join(_, _)
Join(ss, sep) ==
  IF ss = <<>> THEN <<>>
  ELSE IF Len(ss) = 1 THEN ss[1]
  ELSE ss[1] \o sep \o Join(Tail(ss), sep)

SP == <<" ">>
QUOTE == <<"\"">>

SampleLines ==
  { <<>>,                                                        \* empty line
    <<"A","b">>,                                                 \* Ab
    <<"a"," ","b">>,                                             \* a b
    <<" ","a","B"," "," ","b"," ">>,                             \* padded: aB b
    <<"x">>,                                                     \* one token
    <<"a"," ","b"," ">> \o gormPrefix \o <<"i","d">>,              \* a b gorm:id
    <<"a"," ","b"," ">> \o gormPrefix \o QUOTE \o <<"c",":","m">> \o QUOTE,
    <<"a"," ","b"," ">> \o gormPrefix \o QUOTE \o <<"x">> \o QUOTE
       \o SP \o gormPrefix \o QUOTE \o <<"y">> \o QUOTE }

SeqsUpTo(S, n) == UNION {[1..k -> S] : k \in 0..n}

SampleTexts == {Join(ls, NL) : ls \in SeqsUpTo(SampleLines, MaxLines)}

(***************************************************************************)
(* Paths: path/filepath on rooted paths. A path is the sequence of its     *)
(* elements; <<>> is the root.                                             *)
(***************************************************************************)
SLASH == <<"/">>
DOT == <<".">>
DOTDOT == <<".", ".">>

\* filepath.Clean, continued from the clean rooted path acc: empty and "."
\* elements vanish, ".." removes the element before it (and vanishes at the root)
RECURSIVE CleanFrom(_, _)
CleanFrom(acc, elems) ==
  IF elems = <<>> THEN acc
  ELSE LET e == Head(elems)
       IN IF e = <<>> \/ e = DOT THEN CleanFrom(acc, Tail(elems))
          ELSE IF e = DOTDOT
               THEN CleanFrom(IF acc = <<>> THEN acc ELSE SubSeq(acc, 1, Len(acc) - 1), Tail(elems))
               ELSE CleanFrom(Append(acc, e), Tail(elems))

\* filepath.Join(base, name) for a clean rooted base
JoinPath(base, name) == CleanFrom(base, Split(name, SLASH))

\* filepath.Dir of a clean rooted path
Dir(path) == IF path = <<>> THEN <<>> ELSE SubSeq(path, 1, Len(path) - 1)

IsUnder(path, dir) == Len(path) > Len(dir) /\ SubSeq(path, 1, Len(dir)) = dir

\* filepath.ToSlash(filepath.Rel(sourceDir, filePath)) for a file under sourceDir
RelSlash(sourceDir, filePath) ==
  Join(SubSeq(filePath, Len(sourceDir) + 1, Len(filePath)), SLASH)

\* byte order of the characters that occur in names
AsciiOrder ==
  <<" ", "\"", "-", ".", "0","1","2","3","4","5","6","7","8","9", ":",
    "A","B","C","D","E","F","G","H","I","J","K","L","M",
    "N","O","P","Q","R","S","T","U","V","W","X","Y","Z", "_",
    "a","b","c","d","e","f","g","h","i","j","k","l","m",
    "n","o","p","q","r","s","t","u","v","w","x","y","z">>

Ord(c) == CHOOSE i \in 1..Len(AsciiOrder) : AsciiOrder[i] = c

\* s < t as Go strings
RECURSIVE TextLess(_, _)
TextLess(s, t) ==
  IF t = <<>> THEN FALSE
  ELSE IF s = <<>> THEN TRUE
  ELSE IF Head(s) = Head(t) THEN TextLess(Tail(s), Tail(t))
  ELSE Ord(Head(s)) < Ord(Head(t))

\* the order in which filepath.Walk reaches two paths: every directory's names
\* are visited in sorted order, a directory before what it holds
RECURSIVE WalkBefore(_, _)
WalkBefore(p, q) ==
  IF q = <<>> THEN FALSE
  ELSE IF p = <<>> THEN TRUE
  ELSE IF Head(p) = Head(q) THEN WalkBefore(Tail(p), Tail(q))
  ELSE TextLess(Head(p), Head(q))

(***************************************************************************)
(* The filesystem: os.MkdirAll, os.WriteFile, os.Create, os.RemoveAll.     *)
(***************************************************************************)
\* os.TempDir()
TempDir == << <<"t","m","p">> >>

Ancestors(path) == {SubSeq(path, 1, k) : k \in 1..Len(path)}

\* os.MkdirAll(path): the directories after the call. It fails, creating
\* nothing, when an element of the path is a regular file.
MkdirAll(ds, fs, path) ==
  IF \E a \in Ancestors(path) : a \in DOMAIN fs THEN ds ELSE ds \cup Ancestors(path)

\* os.WriteFile / os.Create can open path for writing: its directory exists
\* and path is no directory
CanCreate(ds, path) == path # <<>> /\ path \notin ds /\ (Dir(path) = <<>> \/ Dir(path) \in ds)

\* f with f[k] = v, whether or not k is in its domain
Put(f, k, v) == [x \in DOMAIN f \cup {k} |-> IF x = k THEN v ELSE f[x]]

(***************************************************************************)
(* Templates and rendering. A template is named by its constant; what      *)
(* Execute writes is the template's literal text with the context filled   *)
(* in, kept as the pair of both.                                           *)
(***************************************************************************)
\* tmpl.Execute(&buf, data): every template constant has literal text
Render(tmplName, ctx) == [kind |-> "text", static |-> tmplName, ctx |-> ctx]

\* a staged file has at least one byte
NonEmptyBody(body) == body.kind = "text" /\ body.static # ""

skeletonDirs ==
  << <<"c","m","d">>,
     <<"p","k","g","/","a","p","i">>,
     <<"p","k","g","/","c","o","n","f","i","g">>,
     <<"p","k","g","/","d","a","t","a","b","a","s","e">>,
     <<"p","k","g","/","m","o","d","e","l","s">>,
     <<"p","k","g","/","h","a","n","d","l","e","r","s">>,
     <<"p","k","g","/","m","i","d","d","l","e","w","a","r","e","s">>,
     <<"a","p","i">>,
     <<"m","i","g","r","a","t","i","o","n","s">>,
     <<"d","o","c","s">> >>

\* the map `files` of generateProjectStructure, in the order it is written
fixedFiles ==
  << [path |-> <<"c","m","d","/","m","a","i","n",".","g","o">>,
      tmpl |-> "mainTemplate"],
     [path |-> <<"p","k","g","/","c","o","n","f","i","g","/","c","o","n","f","i","g",".","g","o">>,
      tmpl |-> "configTemplate"],
     [path |-> <<"p","k","g","/","d","a","t","a","b","a","s","e","/","d","a","t","a","b","a","s","e",".","g","o">>,
      tmpl |-> "databaseTemplate"],
     [path |-> <<"p","k","g","/","a","p","i","/","s","e","r","v","e","r",".","g","o">>,
      tmpl |-> "serverTemplate"],
     [path |-> <<"p","k","g","/","m","i","d","d","l","e","w","a","r","e","s","/","l","o","g","g","e","r",".","g","o">>,
      tmpl |-> "loggerMiddlewareTemplate"],
     [path |-> <<".","e","n","v">>,
      tmpl |-> "envTemplate"],
     [path |-> <<"g","o",".","m","o","d">>,
      tmpl |-> "goModTemplate"],
     [path |-> <<"R","E","A","D","M","E",".","m","d">>,
      tmpl |-> "readmeTemplate"],
     [path |-> <<"D","o","c","k","e","r","f","i","l","e">>,
      tmpl |-> "dockerfileTemplate"],
     [path |-> <<".","g","i","t","i","g","n","o","r","e">>,
      tmpl |-> "gitignoreTemplate"] >>

modelsDirPrefix == <<"p","k","g","/","m","o","d","e","l","s","/">>
handlersDirPrefix == <<"p","k","g","/","h","a","n","d","l","e","r","s","/">>
apiDirPrefix == <<"a","p","i","/">>
goSuffix == <<".","g","o">>
yamlSuffix == <<".","y","a","m","l">>
zipSuffix == <<".","z","i","p">>
tempPattern == <<"g","i","n","-","c","r","u","d","-">>

\* modelFiles without its API description entry
modelFiles_NoApiSpec(model) ==
  << [path |-> modelsDirPrefix \o model.SnakeName \o goSuffix, tmpl |-> "modelTemplate"],
     [path |-> handlersDirPrefix \o model.SnakeName \o goSuffix, tmpl |-> "handlerTemplate"] >>

\* the map `modelFiles` built for one model (lines 287-291)
modelFiles(model) ==
  << [path |-> modelsDirPrefix \o model.SnakeName \o goSuffix, tmpl |-> "modelTemplate"],
     [path |-> handlersDirPrefix \o model.SnakeName \o goSuffix, tmpl |-> "handlerTemplate"],
     [path |-> apiDirPrefix \o model.SnakeName \o yamlSuffix, tmpl |-> "apiSpecTemplate"] >>

(***************************************************************************)
(* Inputs of the /generate handler.                                        *)
(***************************************************************************)
\* iteration orders of a Go map that are considered: this many rotations of
\* the order in which its keys are written
MaxMapOrders == 2

Requests == 1..NumRequests

\* project_name: p, ./p and q
ProjectNames == { <<"p">>, <<".","/","p">>, <<"q">> }
ModuleNames == { <<"m">> }
Ports == { <<"8">> }

fieldLine == <<"a"," ","b">>
otherFieldLine == <<"c"," ","b">>
\* a model name that is a relative path
pathName == <<".",".","/","a","p","i","/","s","e","r","v","e","r">>
\* models: no model; Ab; Ab and C; AB and aB (one snake name a_b); a block
\* whose first line is empty; two models named ../api/server
ModelTexts ==
  { <<>>,
    Join(<< <<"A","b">>, fieldLine >>, NL),
    Join(<< <<"A","b">>, fieldLine, <<>>, <<"C">>, fieldLine >>, NL),
    Join(<< <<"A","B">>, fieldLine, <<>>, <<"a","B">>, fieldLine >>, NL),
    Join(<< <<>>, fieldLine >>, NL),
    Join(<< pathName, fieldLine, <<>>, pathName, otherFieldLine >>, NL) }

\* the descriptions posted while several requests are in flight
ConcurrentTexts ==
  { <<>>, Join(<< <<"A","b">>, fieldLine >>, NL) }

Digits == <<"0","1","2","3","4","5","6","7","8","9">>
\* the random part of a name MkdirTemp tries
TempSuffixes == {<<Digits[i]>> : i \in 1..NumRequests}

NoData == [Project |-> [ProjectName |-> <<>>, ModuleName |-> <<>>, Port |-> <<>>],
           Models |-> <<>>, Timestamp |-> <<>>]
NoForm == [project_name |-> <<>>, module_name |-> <<>>, port |-> <<>>, models |-> <<>>]
NoZip == [off |-> 0, entries |-> <<>>, err |-> "none"]
NoResp == [status |-> 0, kind |-> "none", body |-> <<>>]
EmptyBody == [kind |-> "text", static |-> "", ctx |-> [none |-> TRUE]]
Hole == [w |-> 0, kind |-> "hole", name |-> <<>>, body |-> EmptyBody, names |-> <<>>]

\* line 168: filepath.Join(os.TempDir(), projectName+".zip")
ZipPath(projectName) == JoinPath(TempDir, projectName \o zipSuffix)

(***************************************************************************)
(* generateFile and the loops of generateProjectStructure.                 *)
(***************************************************************************)
\* generateFile that leaves a file that exists as it is
generateFile_KeepExisting(st, baseDir, filePath, tmplContent, ctx) ==
  LET path == JoinPath(baseDir, filePath)
      ds == MkdirAll(st.dirs, st.files, Dir(path))
  IN IF ~st.ok THEN st
     ELSE IF CanCreate(ds, path)
          THEN [dirs |-> ds,
                files |-> IF path \in DOMAIN st.files THEN st.files
                          ELSE Put(st.files, path, Render(tmplContent, ctx)),
                ok |-> TRUE]
          ELSE [dirs |-> ds, files |-> st.files, ok |-> FALSE]

\* one generateFile call that returns: MkdirAll of the directory, Parse,
\* Execute, WriteFile. st = [dirs, files, ok]; ok turns FALSE when WriteFile
\* cannot open the path (log.Fatalf).
generateFile(st, baseDir, filePath, tmplContent, ctx) ==
  LET path == JoinPath(baseDir, filePath)
      ds == MkdirAll(st.dirs, st.files, Dir(path))
  IN IF ~st.ok THEN st
     ELSE IF CanCreate(ds, path)
          THEN [dirs |-> ds, files |-> Put(st.files, path, Render(tmplContent, ctx)), ok |-> TRUE]
          ELSE [dirs |-> ds, files |-> st.files, ok |-> FALSE]

\* generateFile for each of calls, in order
RECURSIVE GenerateAll(_, _, _, _)
GenerateAll(st, baseDir, calls, ctx) ==
  IF calls = <<>> THEN st
  ELSE GenerateAll(generateFile(st, baseDir, Head(calls).path, Head(calls).tmpl, ctx),
                   baseDir, Tail(calls), ctx)

Min(a, b) == IF a < b THEN a ELSE b

Rotate(s, j) == SubSeq(s, j + 1, Len(s)) \o SubSeq(s, 1, j)

\* the orders a `range` over a map with these keys may take
MapOrders(calls) == {Rotate(calls, j) : j \in 0..(Min(MaxMapOrders, Len(calls)) - 1)}

CallPaths(baseDir, calls) == {JoinPath(baseDir, calls[i].path) : i \in 1..Len(calls)}

\* A `range` loop of generateFile calls by request r: the calls are made in
\* one of the map's orders; the first n of them write their file; when
\* n < Len(calls) the next call's WriteFile fails, and log.Fatalf ends the
\* process on the spot (os.Exit runs no deferred call).
GenerateLoop(r, calls, ctx, nextpc) ==
  \E order \in MapOrders(calls), n \in (IF faults THEN 0..Len(calls) ELSE {Len(calls)}) :
    LET st == GenerateAll([dirs |-> dirs, files |-> files, ok |-> TRUE],
                          tempDir[r], SubSeq(order, 1, n), ctx)
        fatal == ~st.ok \/ n < Len(calls)
    IN /\ dirs' = IF st.ok /\ n < Len(calls)
                  THEN MkdirAll(st.dirs, st.files, Dir(JoinPath(tempDir[r], order[n + 1].path)))
                  ELSE st.dirs
       /\ files' = st.files
       /\ wrote' = [wrote EXCEPT ![r] = @ \cup (CallPaths(tempDir[r], SubSeq(order, 1, n))
                                                  \cap DOMAIN st.files)]
       /\ alive' = ~fatal
       /\ pc' = IF fatal THEN pc ELSE [pc EXCEPT ![r] = nextpc]

(***************************************************************************)
(* The POST /generate handler, one action per step.                        *)
(***************************************************************************)
\* the descriptions tried: all of ModelTexts on a server that gets a single
\* request, ConcurrentTexts when it gets several
OfferedTexts ==
  IF Cardinality({q \in Requests : pc[q] # "absent"}) = 1 THEN ModelTexts ELSE ConcurrentTexts

\* lines 142-155: the form is read and parseModels runs. A panic of
\* parseModels unwinds the handler; gin's Recovery middleware (gin.Default)
\* answers 500 and the process goes on.
Receive(r) ==
  /\ alive /\ pc[r] = "idle"
  /\ \E pn \in ProjectNames, mn \in ModuleNames, po \in Ports,
        mt \in OfferedTexts :
       LET parsed == parseModels(mt)
       IN /\ form' = [form EXCEPT ![r] =
                        [project_name |-> pn, module_name |-> mn, port |-> po, models |-> mt]]
          /\ IF parsed.panicked
             THEN /\ resp' = [resp EXCEPT ![r] = [status |-> 500, kind |-> "recovered", body |-> <<>>]]
                  /\ pc' = [pc EXCEPT ![r] = "done"]
                  /\ data' = data
             ELSE /\ data' = [data EXCEPT ![r] =
                                [Project |-> [ProjectName |-> pn, ModuleName |-> mn, Port |-> po],
                                 Models |-> parsed.models, Timestamp |-> <<>>]]
                  /\ pc' = [pc EXCEPT ![r] = "mkdirtemp"]
                  /\ resp' = resp
  /\ UNCHANGED <<ptext, presult, faults, alive, tempDir, iter, dirs, files, zip, wrote, readp>>

\* lines 158-162: os.MkdirTemp("", "gin-crud-*") makes a directory of a name
\* that does not exist yet; when it fails, log.Fatal ends the process.
MkdirTemp(r) ==
  /\ alive /\ pc[r] = "mkdirtemp"
  /\ \/ /\ faults
        /\ alive' = FALSE
        /\ UNCHANGED <<pc, tempDir, dirs, wrote>>
     \/ \E sfx \in TempSuffixes :
          LET d == Append(TempDir, tempPattern \o sfx)
          IN /\ d \notin dirs /\ d \notin DOMAIN files
             /\ dirs' = dirs \cup {d}
             /\ tempDir' = [tempDir EXCEPT ![r] = d]
             /\ wrote' = [wrote EXCEPT ![r] = @ \cup {d}]
             /\ pc' = [pc EXCEPT ![r] = "skeleton"]
             /\ alive' = alive
  /\ UNCHANGED <<ptext, presult, faults, form, data, iter, files, zip, resp, readp>>

\* all directories of the skeleton, errors of MkdirAll ignored
RECURSIVE MkdirEach(_, _, _, _)
MkdirEach(ds, fs, baseDir, names) ==
  IF names = <<>> THEN ds
  ELSE MkdirEach(MkdirAll(ds, fs, JoinPath(baseDir, Head(names))), fs, baseDir, Tail(names))

\* lines 254-269 of generateProjectStructure
MakeSkeleton(r) ==
  /\ alive /\ pc[r] = "skeleton"
  /\ dirs' = MkdirEach(dirs, files, tempDir[r], skeletonDirs)
  /\ wrote' = [wrote EXCEPT ![r] = @ \cup (dirs' \ dirs)]
  /\ iter' = [iter EXCEPT ![r] = 1]
  /\ pc' = [pc EXCEPT ![r] = IF Len(data[r].Models) > 0 THEN "models" ELSE "fixed"]
  /\ UNCHANGED <<ptext, presult, faults, alive, form, data, tempDir, files, zip, resp, readp>>

\* lines 286-299: one turn of the loop over data.Models
GenerateModelFiles(r) ==
  /\ alive /\ pc[r] = "models"
  /\ LET model == data[r].Models[iter[r]]
     IN GenerateLoop(r, modelFiles(model), [Project |-> data[r].Project, Model |-> model],
                     IF iter[r] < Len(data[r].Models) THEN "models" ELSE "fixed")
  /\ iter' = [iter EXCEPT ![r] = @ + 1]
  /\ UNCHANGED <<ptext, presult, faults, form, data, tempDir, zip, resp, readp>>

\* lines 302-304: the loop over the project-level files
GenerateFixedFiles(r) ==
  /\ alive /\ pc[r] = "fixed"
  /\ GenerateLoop(r, fixedFiles, data[r], "zipcreate")
  /\ UNCHANGED <<ptext, presult, faults, form, data, tempDir, iter, zip, resp, readp>>

(***************************************************************************)
(* createZip. The archive file is the sequence of the chunks written to    *)
(* it: one per entry, then the central directory that zipWriter.Close      *)
(* writes. Each open file has its own offset; os.Create truncates the      *)
(* file whoever else has it open.                                          *)
(***************************************************************************)
\* a write of chunk c at offset off of a file holding chunks
WriteAt(chunks, off, c) ==
  IF off < Len(chunks) THEN [chunks EXCEPT ![off + 1] = c]
  ELSE chunks \o [i \in 1..(off - Len(chunks)) |-> Hole] \o <<c>>

\* the file at path after request r's descriptor wrote chunk c at its offset
FileWrite(fs, path, off, c) ==
  IF path \in DOMAIN fs /\ fs[path].kind = "zip"
  THEN [fs EXCEPT ![path] = [kind |-> "zip", chunks |-> WriteAt(@.chunks, off, c)]]
  ELSE fs

EntryChunk(r, name, body) ==
  [w |-> r, kind |-> "entry", name |-> name, body |-> body, names |-> <<>>]

\* the central directory of the entries written so far
DirectoryChunk(r, entries) ==
  [w |-> r, kind |-> "cd", name |-> <<>>, body |-> EmptyBody,
   names |-> [i \in 1..Len(entries) |-> entries[i].name]]

\* a set as a sequence, in any order
RECURSIVE SetToSeq(_)
SetToSeq(S) ==
  IF S = {} THEN <<>> ELSE LET x == CHOOSE y \in S : TRUE IN <<x>> \o SetToSeq(S \ {x})

\* the regular files under sourceDir in the order filepath.Walk hands them to
\* its callback (the directories it hands over are skipped at line 92)
WalkFiles(fs, sourceDir) ==
  SortSeq(SetToSeq({p \in DOMAIN fs : IsUnder(p, sourceDir)}), WalkBefore)

\* chunks cs written one after the other from offset off
RECURSIVE WriteAll(_, _, _)
WriteAll(chunks, off, cs) ==
  IF cs = <<>> THEN chunks ELSE WriteAll(WriteAt(chunks, off, Head(cs)), off + 1, Tail(cs))

\* lines 97-123 for each of files: the entry named by the slash-separated path
\* relative to sourceDir, holding a copy of the file
ZipEntries(fs, sourceDir, paths) ==
  [i \in 1..Len(paths) |-> [name |-> RelSlash(sourceDir, paths[i]), body |-> fs[paths[i]]]]

\* lines 77-84: os.Create(targetZip) and zip.NewWriter; a failed Create
\* returns the error at once
ZipCreate(r) ==
  /\ alive /\ pc[r] = "zipcreate"
  /\ LET targetZip == ZipPath(form[r].project_name)
     IN \/ /\ CanCreate(dirs, targetZip)
           /\ files' = Put(files, targetZip, [kind |-> "zip", chunks |-> <<>>])
           /\ zip' = [zip EXCEPT ![r] = [off |-> 0, entries |-> <<>>, err |-> "none"]]
           /\ wrote' = [wrote EXCEPT ![r] = @ \cup {targetZip}]
           /\ pc' = [pc EXCEPT ![r] = "zipwalk"]
        \/ /\ faults \/ ~CanCreate(dirs, targetZip)
           /\ zip' = [zip EXCEPT ![r] = [off |-> 0, entries |-> <<>>, err |-> "error"]]
           /\ pc' = [pc EXCEPT ![r] = "respond"]
           /\ UNCHANGED <<files, wrote>>
  /\ UNCHANGED <<ptext, presult, faults, alive, form, data, tempDir, iter, dirs, resp, readp>>

\* lines 86-124: filepath.Walk(sourceDir, callback). The callback skips the
\* directories and adds an entry for each regular file; the first n files get
\* their entry, and when n is not all of them the callback's next call
\* returns an error (header, entry creation, open or copy), which ends the
\* walk and is what Walk returns.
ZipWalk(r) ==
  /\ alive /\ pc[r] = "zipwalk"
  /\ LET sourceDir == tempDir[r]
         targetZip == ZipPath(form[r].project_name)
         todo == WalkFiles(files, sourceDir)
     IN \E n \in (IF faults THEN 0..Len(todo) ELSE {Len(todo)}) :
          LET entries == ZipEntries(files, sourceDir, SubSeq(todo, 1, n))
          IN /\ files' = IF targetZip \in DOMAIN files /\ files[targetZip].kind = "zip"
                         THEN [files EXCEPT ![targetZip] =
                                 [kind |-> "zip",
                                  chunks |-> WriteAll(@.chunks, zip[r].off,
                                     [i \in 1..n |-> EntryChunk(r, entries[i].name, entries[i].body)])]]
                         ELSE files
             /\ zip' = [zip EXCEPT ![r] = [off |-> @.off + n, entries |-> entries,
                                           err |-> IF n = Len(todo) THEN "nil" ELSE "error"]]
             /\ readp' = [readp EXCEPT ![r] = @ \cup {todo[i] : i \in 1..n}]
  /\ pc' = [pc EXCEPT ![r] = "zipclose"]
  /\ UNCHANGED <<ptext, presult, faults, alive, form, data, tempDir, iter, dirs, resp, wrote>>

\* lines 81 and 84, run when createZip returns: zipWriter.Close() writes the
\* central directory, zipFile.Close() closes the file. Both results are
\* dropped, so createZip returns what Walk returned also when the write of
\* the central directory failed.
ZipClose(r) ==
  /\ alive /\ pc[r] = "zipclose"
  /\ LET targetZip == ZipPath(form[r].project_name)
     IN \/ /\ files' = FileWrite(files, targetZip, zip[r].off, DirectoryChunk(r, zip[r].entries))
           /\ zip' = [zip EXCEPT ![r].off = @ + 1]
        \/ faults /\ UNCHANGED <<files, zip>>
  /\ pc' = [pc EXCEPT ![r] = "respond"]
  /\ UNCHANGED <<ptext, presult, faults, alive, form, data, tempDir, iter, dirs, resp, wrote, readp>>

\* lines 169-178: the JSON error when createZip returned one, else c.File(zipPath),
\* which sends what the file holds now
Respond(r) ==
  /\ alive /\ pc[r] = "respond"
  /\ LET zipPath == ZipPath(form[r].project_name)
     IN IF zip[r].err # "nil"
        THEN /\ resp' = [resp EXCEPT ![r] = [status |-> 500, kind |-> "json", body |-> <<>>]]
             /\ readp' = readp
        ELSE /\ resp' = [resp EXCEPT ![r] =
                           IF zipPath \in DOMAIN files /\ files[zipPath].kind = "zip"
                           THEN [status |-> 200, kind |-> "file", body |-> files[zipPath].chunks]
                           ELSE [status |-> 404, kind |-> "notfound", body |-> <<>>]]
             /\ readp' = [readp EXCEPT ![r] = @ \cup {zipPath}]
  /\ pc' = [pc EXCEPT ![r] = "cleanup"]
  /\ UNCHANGED <<ptext, presult, faults, alive, form, data, tempDir, iter, dirs, files, zip, wrote>>

\* line 162, run when the handler returns: os.RemoveAll(tempDir)
Cleanup(r) ==
  /\ alive /\ pc[r] = "cleanup"
  /\ dirs' = {d \in dirs : d # tempDir[r] /\ ~IsUnder(d, tempDir[r])}
  /\ files' = [p \in {q \in DOMAIN files : ~IsUnder(q, tempDir[r])} |-> files[p]]
  /\ pc' = [pc EXCEPT ![r] = "done"]
  /\ UNCHANGED <<ptext, presult, faults, alive, form, data, tempDir, iter, zip, resp, wrote, readp>>

(***************************************************************************)
(* parseModels on its own.                                                 *)
(***************************************************************************)
NoResult == [called |-> FALSE, panicked |-> FALSE, models |-> <<>>]

Parse ==
  /\ ~presult.called
  /\ presult' = [called |-> TRUE,
                 panicked |-> parseModels(ptext).panicked,
                 models |-> parseModels(ptext).models]
  /\ UNCHANGED <<ptext, faults, alive, pc, form, data, tempDir, iter, dirs, files, zip, resp,
                 wrote, readp>>

(***************************************************************************)
(* Specifications.                                                         *)
(***************************************************************************)
InitServer ==
  /\ alive = TRUE
  /\ form = [r \in Requests |-> NoForm]
  /\ data = [r \in Requests |-> NoData]
  /\ tempDir = [r \in Requests |-> <<>>]
  /\ iter = [r \in Requests |-> 0]
  /\ dirs = {TempDir}
  /\ files = [p \in {} |-> EmptyBody]
  /\ zip = [r \in Requests |-> NoZip]
  /\ resp = [r \in Requests |-> NoResp]
  /\ wrote = [r \in Requests |-> {}]
  /\ readp = [r \in Requests |-> {}]

\* the server receives NumRequests requests, in flight together or not, and
\* no file operation fails but one that cannot succeed
Init ==
  /\ InitServer /\ faults = FALSE
  /\ ptext = <<>> /\ presult = NoResult
  /\ pc = [r \in Requests |-> "idle"]

\* the server receives one request, and file operations may fail
InitOne ==
  /\ InitServer /\ faults = TRUE
  /\ ptext = <<>> /\ presult = NoResult
  /\ pc = [r \in Requests |-> IF r = 1 THEN "idle" ELSE "absent"]

\* parseModels is called on a description
InitParse ==
  /\ InitServer /\ faults = FALSE
  /\ ptext \in SampleTexts /\ presult = NoResult
  /\ pc = [r \in Requests |-> "absent"]

Next ==
  \E r \in Requests :
    \/ Receive(r)
    \/ MkdirTemp(r)
    \/ MakeSkeleton(r)
    \/ GenerateModelFiles(r)
    \/ GenerateFixedFiles(r)
    \/ ZipCreate(r)
    \/ ZipWalk(r)
    \/ ZipClose(r)
    \/ Respond(r)
    \/ Cleanup(r)

NextParse == Parse

Spec == Init /\ [][Next]_vars
SpecOne == InitOne /\ [][Next]_vars
SpecParse == InitParse /\ [][NextParse]_vars

(***************************************************************************)
(* What the claims speak of.                                               *)
(***************************************************************************)
ZipPathOf(r) == ZipPath(form[r].project_name)

\* the handler of r has started and has not returned, in a running process
InFlight(r) == alive /\ pc[r] \notin {"idle", "absent", "done"}

\* createZip of request r has returned nil
ZipReturnedNil(r) == pc[r] \in {"respond", "cleanup", "done"} /\ zip[r].err = "nil"

SnakeNames(models) == {models[i].SnakeName : i \in 1..Len(models)}

\* no SnakeName of models holds a path separator
SeparatorFree(models) == \A i \in 1..Len(models) : ~Contains(models[i].SnakeName, SLASH)

\* the regular files under the staging directory of r
StagedFiles(r) == {p \in DOMAIN files : IsUnder(p, tempDir[r])}

\* what an archive reader finds in a file of these chunks: the entries its
\* central directory lists, when the last chunk is a central directory and
\* the chunks before it are the entries it lists
Readable(chunks) ==
  /\ chunks # <<>>
  /\ chunks[Len(chunks)].kind = "cd"
  /\ Len(chunks[Len(chunks)].names) = Len(chunks) - 1
  /\ \A i \in 1..(Len(chunks) - 1) :
       chunks[i].kind = "entry" /\ chunks[i].name = chunks[Len(chunks)].names[i]

ArchiveEntries(chunks) ==
  {[name |-> chunks[i].name, body |-> chunks[i].body] : i \in 1..(Len(chunks) - 1)}

\* the archive file createZip of r writes when nothing fails and nobody else
\* writes it
CompleteArchive(r) ==
  [i \in 1..Len(zip[r].entries) |->
     EntryChunk(r, zip[r].entries[i].name, zip[r].entries[i].body)]
  \o <<DirectoryChunk(r, zip[r].entries)>>

(***************************************************************************)
(* C1.                                                                     *)
(***************************************************************************)
\* C1, as stated: when createZip has returned nil on the staging directory
\* that generateProjectStructure filled for N models, the archive has
\* exactly 10 + 3*N entries, each with a non-empty body.
C1_AsStated ==
  \A r \in Requests :
    ZipReturnedNil(r) =>
      /\ Len(zip[r].entries) = 10 + 3 * Len(data[r].Models)
      /\ \A i \in 1..Len(zip[r].entries) : NonEmptyBody(zip[r].entries[i].body)

\* C1, amended: for SnakeNames without path separators the archive has
\* exactly 10 + 3*D entries, D the number of distinct SnakeNames among the N
\* models (two models of one SnakeName share their three paths), each with a
\* non-empty body; and the archive file, once its central directory is
\* written, lists exactly these entries.
C1_EntryCount ==
  \A r \in Requests :
    (ZipReturnedNil(r) /\ SeparatorFree(data[r].Models)) =>
      /\ Len(zip[r].entries) = 10 + 3 * Cardinality(SnakeNames(data[r].Models))
      /\ \A i \in 1..Len(zip[r].entries) : NonEmptyBody(zip[r].entries[i].body)
      /\ (pc[r] = "respond" /\ Readable(files[ZipPathOf(r)].chunks)) =>
            /\ Len(files[ZipPathOf(r)].chunks) = Len(zip[r].entries) + 1
            /\ ArchiveEntries(files[ZipPathOf(r)].chunks)
                 = {zip[r].entries[i] : i \in 1..Len(zip[r].entries)}

\* C1's case: an archive was written and is readable for two models of one
\* SnakeName, and for two models of different SnakeNames
C1_Witness ==
  \E r \in Requests :
    /\ pc[r] = "respond" /\ zip[r].err = "nil"
    /\ Readable(files[ZipPathOf(r)].chunks)
    /\ Len(data[r].Models) = 2
    /\ Cardinality(SnakeNames(data[r].Models)) = 1
    /\ Len(zip[r].entries) = 13

(***************************************************************************)
(* C2, C3: concurrent requests.                                            *)
(***************************************************************************)
\* C2: of two requests in flight together whose project names differ,
\* neither reads or writes a path the other writes, and the archive either
\* one answers with holds nothing the other wrote.
C2_DifferentNamesIsolated ==
  \A r1, r2 \in Requests :
    (/\ r1 # r2
     /\ pc[r1] \notin {"idle", "absent"} /\ pc[r2] \notin {"idle", "absent"}
     /\ form[r1].project_name # form[r2].project_name) =>
      /\ (InFlight(r1) /\ InFlight(r2)) =>
            (wrote[r1] \cup readp[r1]) \cap wrote[r2] = {}
      /\ resp[r1].kind = "file" =>
            \A i \in 1..Len(resp[r1].body) : resp[r1].body[i].w # r2

\* C3: requests in flight together write no path in common.
C3_NoSharedPath ==
  \A r1, r2 \in Requests :
    (r1 # r2 /\ InFlight(r1) /\ InFlight(r2)) => wrote[r1] \cap wrote[r2] = {}

(***************************************************************************)
(* C4, C5, C6: failures.                                                   *)
(***************************************************************************)
\* C4: once a request has ended (its handler returned, or the process
\* ended under it), the staging directory it created exists no more.
C4_StagingRemoved ==
  \A r \in Requests :
    (tempDir[r] # <<>> /\ (pc[r] = "done" \/ ~alive)) => tempDir[r] \notin dirs

\* C5: no failure of a step ends the process, and a request whose
\* createZip failed answers with the error.
C5_FailureStaysInRequest ==
  /\ alive
  /\ \A r \in Requests :
       (pc[r] \in {"cleanup", "done"} /\ zip[r].err = "error") =>
          resp[r].status = 500 /\ resp[r].kind = "json"

\* C6: a request that answers with the archive file sends exactly the
\* complete archive its own createZip wrote, and a request whose createZip
\* failed answers with the error.
C6_NoPartialArchive ==
  \A r \in Requests :
    /\ resp[r].kind = "file" => resp[r].body = CompleteArchive(r)
    /\ (pc[r] \in {"cleanup", "done"} /\ zip[r].err = "error") => resp[r].kind = "json"

(***************************************************************************)
(* C7, C8, C9: parseModels.                                                *)
(***************************************************************************)
\* C7: parseModels returns for every input; it never panics.
C7_NeverPanics == presult.called => ~presult.panicked

\* the blocks of the input that have two or more lines
ModelBlocks(text) == SelectSeq(Split(text, NL \o NL), LAMBDA b : Len(Split(b, NL)) >= 2)

\* the lines after the first of a block that have two or more tokens
FieldLines(block) == SelectSeq(Tail(Split(block, NL)), LAMBDA l : Len(Fields(l)) >= 2)

\* C8: parseModels yields one Model for each block of two or more lines and
\* none for the others, and the Model has one field for each line after the
\* first that has two or more tokens.
C8_OneModelPerBlock ==
  presult.called =>
    /\ ~presult.panicked
    /\ Len(presult.models) = Len(ModelBlocks(ptext))
    /\ \A k \in 1..Len(presult.models) :
         Len(presult.models[k].Fields) = Len(FieldLines(ModelBlocks(ptext)[k]))

\* the persistence tag C9 gives a field line: the last token from the third
\* on that starts with gorm:, less that prefix and less the quote characters
\* around the rest; column:<snake(name)> when there is no such token
ClaimedTag(line) ==
  LET parts == Fields(line)
      hints == SelectSeq(SubSeq(parts, 3, Len(parts)), LAMBDA t : HasPrefix(t, gormPrefix))
      last == hints[Len(hints)]
  IN IF hints = <<>> THEN columnPrefix \o toSnakeCase(parts[1])
     ELSE Trim(SubSeq(last, Len(gormPrefix) + 1, Len(last)), {"\""})

\* C9: every parsed field carries the persistence tag of its line.
C9_GormTag ==
  (presult.called /\ ~presult.panicked) =>
    \A k \in 1..Len(presult.models) :
      \A j \in 1..Len(presult.models[k].Fields) :
        j <= Len(FieldLines(ModelBlocks(ptext)[k])) =>
          presult.models[k].Fields[j].GormTag = ClaimedTag(FieldLines(ModelBlocks(ptext)[k])[j])

(***************************************************************************)
(* C10.                                                                    *)
(***************************************************************************)
\* C10: when createZip has returned nil, the archive file holds one entry
\* for each regular file under sourceDir and nothing else, each named by the
\* file's slash-separated path relative to sourceDir and holding the file's
\* content.
C10_ArchiveIsTree ==
  \A r \in Requests :
    (pc[r] = "respond" /\ zip[r].err = "nil") =>
      /\ Readable(files[ZipPathOf(r)].chunks)
      /\ Len(files[ZipPathOf(r)].chunks) - 1 = Cardinality(StagedFiles(r))
      /\ ArchiveEntries(files[ZipPathOf(r)].chunks)
           = {[name |-> RelSlash(tempDir[r], p), body |-> files[p]] : p \in StagedFiles(r)}

(***************************************************************************)
(* C11.                                                                    *)
(***************************************************************************)
\* generateProjectStructure of r has returned and its tree is still there
Generated(r) == pc[r] \in {"zipcreate", "zipwalk", "zipclose", "respond", "cleanup"}

\* the loop over data.Models of r is over
ModelsGenerated(r) == pc[r] = "fixed" \/ Generated(r)

\* the paths the generateFile calls for model are made on
ModelPaths(r, model) == CallPaths(tempDir[r], modelFiles(model))

FixedPaths(r) == CallPaths(tempDir[r], fixedFiles)

\* the templates model is rendered by at path
TemplatesAt(r, model, path) ==
  {modelFiles(model)[k].tmpl :
     k \in {j \in 1..Len(modelFiles(model)) :
              JoinPath(tempDir[r], modelFiles(model)[j].path) = path}}

\* the last model of the input that has a per-model file at path
LastModelAt(r, path) ==
  LET at == {i \in 1..Len(data[r].Models) : path \in ModelPaths(r, data[r].Models[i])}
  IN data[r].Models[CHOOSE i \in at : \A j \in at : j <= i]

ModelCtx(r, model) == [Project |-> data[r].Project, Model |-> model]

====
